---- MODULE Spec2Model ----
(***************************************************************************)
(* Verification model of the 3D Voronoi plane-cutting core                 *)
(* (src/src/voronoi3d.js).                                                 *)
(*                                                                         *)
(* Numbers.  The program computes in IEEE doubles; the model computes in   *)
(* exact rationals <<n, d>> (d > 0, lowest terms).  Two consequences:      *)
(*  - a unit normal n/|n| is irrational in general, so a Plane keeps the   *)
(*    direction `normal` it was built from together with `len2` = |n|^2;   *)
(*    the stored offset `d` and every signedDistance are the program's     *)
(*    values multiplied by the positive factor sqrt(len2).  Signs, ratios  *)
(*    (t = d1/(d1-d2)) and angular orders are unchanged by that factor;    *)
(*  - every input of the model lies on a coarse rational lattice, on which *)
(*    a signed distance is either exactly 0 or far larger than             *)
(*    EPSILON = 1e-10 in magnitude, so d < -EPSILON is d < 0 and           *)
(*    d > EPSILON is d > 0.                                                *)
(* Vertex indices inside faces are 0-based as in the program.              *)
(***************************************************************************)
EXTENDS Integers, Sequences, FiniteSets, TLC

\* ------------------------------------------------------------------------
\* Exact numbers
\* ------------------------------------------------------------------------
\* TLC evaluates the arguments of an operator by name, once per use.  The
\* arithmetic below binds each argument in a singleton set so that it is
\* evaluated once, as a JavaScript argument is.
The(S) == CHOOSE v \in S : TRUE

Abs(a) == IF a < 0 THEN -a ELSE a

RECURSIVE GCD(_, _)
GCD(a, b) == The({ IF y = 0 THEN x ELSE GCD(y, x % y) : x \in {a}, y \in {b} })

Rat(n, d) ==
    The({ The({ <<((IF y < 0 THEN -1 ELSE 1) * x) \div g,
                  ((IF y < 0 THEN -1 ELSE 1) * y) \div g>> : g \in {GCD(Abs(x), Abs(y))} })
          : x \in {n}, y \in {d} })

Int2R(n) == <<n, 1>>
Zero == <<0, 1>>
RAdd(a, b) == The({ Rat(x[1] * y[2] + y[1] * x[2], x[2] * y[2]) : x \in {a}, y \in {b} })
RSub(a, b) == The({ Rat(x[1] * y[2] - y[1] * x[2], x[2] * y[2]) : x \in {a}, y \in {b} })
RMul(a, b) == The({ Rat(x[1] * y[1], x[2] * y[2]) : x \in {a}, y \in {b} })
RDiv(a, b) == The({ Rat(x[1] * y[2], x[2] * y[1]) : x \in {a}, y \in {b} })
RNeg(a) == The({ <<-x[1], x[2]>> : x \in {a} })
RAbs(a) == The({ <<Abs(x[1]), x[2]>> : x \in {a} })
RLess(a, b) == \E x \in {a}, y \in {b} : x[1] * y[2] < y[1] * x[2]
RLeq(a, b) == \E x \in {a}, y \in {b} : x[1] * y[2] <= y[1] * x[2]
RSign(a) == The({ IF x[1] < 0 THEN -1 ELSE IF x[1] > 0 THEN 1 ELSE 0 : x \in {a} })

\* ------------------------------------------------------------------------
\* Vec3
\* ------------------------------------------------------------------------
Vec3(x, y, z) == [x |-> x, y |-> y, z |-> z]
IVec(x, y, z) == Vec3(Int2R(x), Int2R(y), Int2R(z))
ZeroVec == Vec3(Zero, Zero, Zero)

add(u, v) ==
    The({ Vec3(RAdd(a.x, b.x), RAdd(a.y, b.y), RAdd(a.z, b.z)) : a \in {u}, b \in {v} })
sub(u, v) ==
    The({ Vec3(RSub(a.x, b.x), RSub(a.y, b.y), RSub(a.z, b.z)) : a \in {u}, b \in {v} })
scale(u, s) ==
    The({ Vec3(RMul(a.x, k), RMul(a.y, k), RMul(a.z, k)) : a \in {u}, k \in {s} })
dot(u, v) ==
    The({ RAdd(RAdd(RMul(a.x, b.x), RMul(a.y, b.y)), RMul(a.z, b.z)) : a \in {u}, b \in {v} })
cross(u, v) ==
    The({ Vec3(RSub(RMul(a.y, b.z), RMul(a.z, b.y)),
               RSub(RMul(a.z, b.x), RMul(a.x, b.z)),
               RSub(RMul(a.x, b.y), RMul(a.y, b.x))) : a \in {u}, b \in {v} })

\* ------------------------------------------------------------------------
\* Plane
\* ------------------------------------------------------------------------
\* mutant: a direction too short to normalise falls back to the x axis
Plane_fallbackAxis(normal, d) ==
    IF normal = ZeroVec THEN [normal |-> IVec(1, 0, 0), len2 |-> Int2R(1), d |-> d]
    ELSE [normal |-> normal, len2 |-> dot(normal, normal), d |-> d]

\* new Plane(normal, d): the normal is normalised; a direction shorter than
\* EPSILON (on the lattice: the zero vector) becomes the zero vector.
Plane(normal, d) == [normal |-> normal, len2 |-> dot(normal, normal), d |-> d]

\* n = normal.normalize(); d = -n.dot(point)
fromPointAndNormal(point, normal) == Plane(normal, RNeg(dot(normal, point)))

\* mutant: the plane passes through p1 instead of the midpoint
perpendicularBisector_atP1(p1, p2) ==
    fromPointAndNormal(p1, Vec3(RSub(p2.x, p1.x), RSub(p2.y, p1.y), RSub(p2.z, p1.z)))

\* mutant: the normal points from the second point to the first
perpendicularBisector_reversed(p1, p2) ==
    fromPointAndNormal(Vec3(RMul(RAdd(p1.x, p2.x), <<1, 2>>),
                            RMul(RAdd(p1.y, p2.y), <<1, 2>>),
                            RMul(RAdd(p1.z, p2.z), <<1, 2>>)),
                       Vec3(RSub(p1.x, p2.x), RSub(p1.y, p2.y), RSub(p1.z, p2.z)))

perpendicularBisector(p1, p2) ==
    LET half == <<1, 2>>
        midpoint == Vec3(RMul(RAdd(p1.x, p2.x), half),
                         RMul(RAdd(p1.y, p2.y), half),
                         RMul(RAdd(p1.z, p2.z), half))
        normal == Vec3(RSub(p2.x, p1.x), RSub(p2.y, p1.y), RSub(p2.z, p1.z))
    IN  fromPointAndNormal(midpoint, normal)

\* normal.dot(point) + d   (times sqrt(len2))
signedDistance(plane, point) == RAdd(dot(plane.normal, point), plane.d)

\* ------------------------------------------------------------------------
\* ConvexPolyhedron
\* ------------------------------------------------------------------------
INSIDE == -1
ON == 0
OUTSIDE == 1

At(s, i) == s[i + 1]

EmptyPoly == [vertices |-> <<>>, faces |-> <<>>]

createBox(minX, minY, minZ, maxX, maxY, maxZ) ==
    [vertices |-> << Vec3(minX, minY, minZ), Vec3(maxX, minY, minZ),
                     Vec3(maxX, maxY, minZ), Vec3(minX, maxY, minZ),
                     Vec3(minX, minY, maxZ), Vec3(maxX, minY, maxZ),
                     Vec3(maxX, maxY, maxZ), Vec3(minX, maxY, maxZ) >>,
     faces |-> << <<0, 3, 2, 1>>, <<4, 5, 6, 7>>, <<0, 1, 5, 4>>,
                  <<2, 3, 7, 6>>, <<0, 4, 7, 3>>, <<1, 2, 6, 5>> >>]

\* mutant: the sign convention reversed, the positive side is kept
classify_flipped(d) == IF RSign(d) > 0 THEN INSIDE
                       ELSE IF RSign(d) < 0 THEN OUTSIDE
                       ELSE ON

\* mutant: no ON class, a vertex on the plane counts as outside
classify_noOn(d) == IF RSign(d) < 0 THEN INSIDE ELSE OUTSIDE

classify(d) == IF RSign(d) < 0 THEN INSIDE
               ELSE IF RSign(d) > 0 THEN OUTSIDE
               ELSE ON

\* mutant: the key keeps the direction, (i, j) and (j, i) are two edges
getEdgeKey_directed(i, j) == <<i, j>>

getEdgeKey(i, j) == IF i < j THEN <<i, j>> ELSE <<j, i>>

\* mutant: the edge is split in the middle instead of on the plane
intersectionPoint_midpoint(vertices, distances, i, j) ==
    scale(add(At(vertices, i), At(vertices, j)), <<1, 2>>)

\* mutant: the interpolation parameter taken from the wrong end, d2 / (d1 - d2)
intersectionPoint_wrongEnd(vertices, distances, i, j) ==
    LET v1 == At(vertices, i)
        v2 == At(vertices, j)
        d1 == At(distances, i)
        d2 == At(distances, j)
        t  == RDiv(d2, RSub(d1, d2))
    IN  Vec3(RAdd(v1.x, RMul(t, RSub(v2.x, v1.x))),
             RAdd(v1.y, RMul(t, RSub(v2.y, v1.y))),
             RAdd(v1.z, RMul(t, RSub(v2.z, v1.z))))

\* The intersection point of edge (i, j) with the plane.
intersectionPoint(vertices, distances, i, j) ==
    LET v1 == At(vertices, i)
        v2 == At(vertices, j)
        d1 == At(distances, i)
        d2 == At(distances, j)
        t  == RDiv(d1, RSub(d1, d2))
    IN  Vec3(RAdd(v1.x, RMul(t, RSub(v2.x, v1.x))),
             RAdd(v1.y, RMul(t, RSub(v2.y, v1.y))),
             RAdd(v1.z, RMul(t, RSub(v2.z, v1.z))))

\* mutant: no lookup in edgeIntersections, every crossing makes a new vertex
getOrCreateIntersection_uncached(vertices, distances, st, i, j) ==
    [st EXCEPT !.nv = Append(st.nv, intersectionPoint(vertices, distances, i, j)),
               !.idx = Len(st.nv)]

\* st.nv: newVertices, st.ei: edgeIntersections, st.idx: the index returned
getOrCreateIntersection(vertices, distances, st, i, j) ==
    LET key == getEdgeKey(i, j)
    IN  IF key \in DOMAIN st.ei
        THEN [st EXCEPT !.idx = st.ei[key]]
        ELSE [st EXCEPT !.nv = Append(st.nv, intersectionPoint(vertices, distances, i, j)),
                        !.ei = (key :> Len(st.nv)) @@ st.ei,
                        !.idx = Len(st.nv)]

\* old index -> new index: the number of non-OUTSIDE vertices before it
RECURSIVE keptBefore(_, _)
keptBefore(classifications, i) ==
    IF i = 0 THEN 0
    ELSE keptBefore(classifications, i - 1)
         + (IF At(classifications, i - 1) # OUTSIDE THEN 1 ELSE 0)

vertexMap(classifications, i) == keptBefore(classifications, i)

RECURSIVE copyKept(_, _, _)
copyKept(vertices, classifications, i) ==
    IF i = 0 THEN <<>>
    ELSE LET rest == copyKept(vertices, classifications, i - 1)
         IN  IF At(classifications, i - 1) # OUTSIDE
             THEN Append(rest, At(vertices, i - 1))
             ELSE rest

\* mutant: an (ON, OUTSIDE) pair is given an intersection vertex of its own
faceStep_boundaryIntersect(vertices, distances, classifications, face, i, st) ==
    LET n == Len(face)
        curr == At(face, i)
        next == At(face, (i + 1) % n)
        currClass == At(classifications, curr)
        nextClass == At(classifications, next)
    IN  The({
          IF (currClass # OUTSIDE /\ nextClass = OUTSIDE)
             \/ (currClass = OUTSIDE /\ nextClass # OUTSIDE)
          THEN The({ [g EXCEPT !.newFace = Append(g.newFace, g.idx),
                               !.cap = Append(g.cap,
                                         IF currClass # OUTSIDE
                                         THEN <<g.idx, curr, next>>
                                         ELSE <<g.idx, next, curr>>)]
                     : g \in {getOrCreateIntersection(vertices, distances, s1, curr, next)} })
          ELSE s1
          : s1 \in { IF currClass # OUTSIDE
                     THEN [st EXCEPT !.newFace = Append(st.newFace, vertexMap(classifications, curr))]
                     ELSE st } })

\* The body of the inner for loop at position i of a face.
\* st = [nv: newVertices, ei: edgeIntersections, idx, cap: capEdges,
\*       newFace, nf: newFaces]
faceStep(vertices, distances, classifications, face, i, st) ==
    LET n == Len(face)
        curr == At(face, i)
        next == At(face, (i + 1) % n)
        currClass == At(classifications, curr)
        nextClass == At(classifications, next)
    IN  The({
          IF (currClass = INSIDE /\ nextClass = OUTSIDE)
             \/ (currClass = OUTSIDE /\ nextClass = INSIDE)
          THEN The({ [g EXCEPT !.newFace = Append(g.newFace, g.idx),
                               !.cap = Append(g.cap,
                                         IF currClass = INSIDE
                                         THEN <<g.idx, curr, next>>
                                         ELSE <<g.idx, next, curr>>)]
                     : g \in {getOrCreateIntersection(vertices, distances, s1, curr, next)} })
          ELSE IF currClass = ON /\ nextClass = OUTSIDE
          THEN [s1 EXCEPT !.cap = Append(s1.cap, <<vertexMap(classifications, curr), curr, next>>)]
          ELSE IF currClass = OUTSIDE /\ nextClass = ON
          THEN [s1 EXCEPT !.cap = Append(s1.cap, <<vertexMap(classifications, next), next, curr>>)]
          ELSE s1
          : s1 \in { IF currClass # OUTSIDE
                     THEN [st EXCEPT !.newFace = Append(st.newFace, vertexMap(classifications, curr))]
                     ELSE st } })

\* One face walk (the inner for loop), from position i on.
RECURSIVE walkFace(_, _, _, _, _, _)
walkFace(vertices, distances, classifications, face, i, st) ==
    IF i >= Len(face) THEN st
    ELSE The({ walkFace(vertices, distances, classifications, face, i + 1, s2)
               : s2 \in {faceStep(vertices, distances, classifications, face, i, st)} })

\* mutant: a face is kept whatever its length
RECURSIVE processFaces_keepAll(_, _, _, _, _, _)
processFaces_keepAll(vertices, distances, classifications, faces, f, st) ==
    IF f > Len(faces) THEN st
    ELSE The({ processFaces_keepAll(vertices, distances, classifications, faces, f + 1,
                                    [w EXCEPT !.nf = Append(w.nf, w.newFace)])
               : w \in {walkFace(vertices, distances, classifications, faces[f], 0,
                                 [st EXCEPT !.newFace = <<>>])} })

\* The outer for loop over this.faces, from face number f on.
RECURSIVE processFaces(_, _, _, _, _, _)
processFaces(vertices, distances, classifications, faces, f, st) ==
    IF f > Len(faces) THEN st
    ELSE The({ processFaces(vertices, distances, classifications, faces, f + 1,
                            IF Len(w.newFace) >= 3
                            THEN [w EXCEPT !.nf = Append(w.nf, w.newFace)]
                            ELSE w)
               : w \in {walkFace(vertices, distances, classifications, faces[f], 0,
                                 [st EXCEPT !.newFace = <<>>])} })

\* ------------------------------------------------------------------------
\* buildCapFace
\* ------------------------------------------------------------------------
\* mutant: no Set, every cap edge contributes its vertex
RECURSIVE uniqueFirst_all(_, _)
uniqueFirst_all(capEdges, k) ==
    IF k = 0 THEN <<>> ELSE Append(uniqueFirst_all(capEdges, k - 1), capEdges[k][1])

\* [...new Set(capEdges.map(e => e[0]))]: first occurrences, in order
RECURSIVE uniqueFirst(_, _)
uniqueFirst(capEdges, k) ==
    IF k = 0 THEN <<>>
    ELSE LET rest == uniqueFirst(capEdges, k - 1)
             e == capEdges[k][1]
         IN  IF \E q \in 1..Len(rest) : rest[q] = e THEN rest ELSE Append(rest, e)

RECURSIVE sumVertices(_, _, _)
sumVertices(vertices, indices, k) ==
    IF k = 0 THEN ZeroVec
    ELSE add(sumVertices(vertices, indices, k - 1), At(vertices, indices[k]))

\* Math.abs(normal.x) < 0.9 for the unit normal: 100 nx^2 < 81 |n|^2
xBelowPoint9(plane) ==
    RLess(RMul(Int2R(100), RMul(plane.normal.x, plane.normal.x)),
          RMul(Int2R(81), plane.len2))

\* The tangent/bitangent basis, up to the positive factors of normalisation.
capTangent(plane) ==
    LET normal == scale(plane.normal, Int2R(-1))
    IN  IF xBelowPoint9(plane)
        THEN cross(IVec(1, 0, 0), normal)
        ELSE cross(IVec(0, 1, 0), normal)

capBitangent(plane) == cross(scale(plane.normal, Int2R(-1)), capTangent(plane))

\* Where Math.atan2(y, x) falls in (-pi, pi]:
\*   0: (-pi, 0)   1: exactly 0   2: (0, pi)   3: exactly pi
angleRegion(y, x) ==
    IF RSign(y) < 0 THEN 0
    ELSE IF RSign(y) > 0 THEN 2
    ELSE IF RSign(x) < 0 THEN 3 ELSE 1

\* angleA - angleB < 0
angleLess(ya, xa, yb, xb) ==
    \E ra \in {angleRegion(ya, xa)}, rb \in {angleRegion(yb, xb)} :
        IF ra # rb THEN ra < rb
        ELSE IF ra \in {1, 3} THEN FALSE
        ELSE RSign(RSub(RMul(xa, yb), RMul(xb, ya))) > 0

\* the comparator of capVertexIndices.sort: TRUE when a sorts strictly before b
capBefore(vertices, center, plane, a, b) ==
    \E va \in {sub(At(vertices, a), center)}, vb \in {sub(At(vertices, b), center)},
       tangent \in {capTangent(plane)}, bitangent \in {capBitangent(plane)} :
        angleLess(dot(va, bitangent), dot(va, tangent),
                  dot(vb, bitangent), dot(vb, tangent))

\* Array.prototype.sort is stable: insert e after every element not after it
RECURSIVE insertSorted(_, _, _, _, _)
insertSorted(vertices, center, plane, sorted, e) ==
    The({ IF s = <<>> THEN <<e>>
          ELSE IF capBefore(vertices, center, plane, e, Head(s))
               THEN <<e>> \o s
               ELSE <<Head(s)>> \o insertSorted(vertices, center, plane, Tail(s), e)
          : s \in {sorted} })

RECURSIVE sortCap(_, _, _, _, _)
sortCap(vertices, center, plane, indices, k) ==
    IF k = 0 THEN <<>>
    ELSE insertSorted(vertices, center, plane,
                      sortCap(vertices, center, plane, indices, k - 1), indices[k])

\* null is modelled as the empty face
buildCapFace(capEdges, vertices, plane) ==
    IF Len(capEdges) < 3 THEN <<>>
    ELSE The({ IF Len(capVertexIndices) < 3 THEN <<>>
               ELSE The({ sortCap(vertices, center, plane, capVertexIndices,
                                  Len(capVertexIndices))
                          : center \in { scale(sumVertices(vertices, capVertexIndices,
                                                           Len(capVertexIndices)),
                                               <<1, Len(capVertexIndices)>>) } })
               : capVertexIndices \in {uniqueFirst(capEdges, Len(capEdges))} })

\* ------------------------------------------------------------------------
\* cutWithPlane
\* ------------------------------------------------------------------------
distancesOf(poly, plane) ==
    [i \in 1..Len(poly.vertices) |-> signedDistance(plane, poly.vertices[i])]

classificationsOf(poly, plane) ==
    [i \in 1..Len(poly.vertices) |-> classify(distancesOf(poly, plane)[i])]

\* mutant: a vertex on the plane counts as outside
hasOutside_orOn(poly, plane) ==
    \E i \in 1..Len(poly.vertices) : classificationsOf(poly, plane)[i] # INSIDE

hasOutside(poly, plane) ==
    \E i \in 1..Len(poly.vertices) : classificationsOf(poly, plane)[i] = OUTSIDE

\* mutant: a vertex on the plane counts as inside
hasInside_orOn(poly, plane) ==
    \E i \in 1..Len(poly.vertices) : classificationsOf(poly, plane)[i] # OUTSIDE

\* mutant: every() instead of some(), one vertex not INSIDE discards the cell
hasInside_every(poly, plane) ==
    \A i \in 1..Len(poly.vertices) : classificationsOf(poly, plane)[i] = INSIDE

hasInside(poly, plane) ==
    \E i \in 1..Len(poly.vertices) : classificationsOf(poly, plane)[i] = INSIDE

rebuildWith(vertices, faces, plane, distances, classifications) ==
    The({ The({ [vertices |-> st.nv,
                 faces |-> IF Len(capFace) >= 3 THEN Append(st.nf, capFace) ELSE st.nf]
                : capFace \in { IF Len(st.cap) >= 3
                                THEN buildCapFace(st.cap, st.nv, plane) ELSE <<>> } })
          : st \in { processFaces(vertices, distances, classifications, faces, 1,
                       [nv |-> copyKept(vertices, classifications, Len(vertices)),
                        ei |-> << >>, idx |-> 0, cap |-> <<>>,
                        newFace |-> <<>>, nf |-> <<>>]) } })

rebuild(poly, plane) ==
    The({ rebuildWith(p.vertices, p.faces, pl, d, c)
          : p \in {poly}, pl \in {plane},
            d \in {distancesOf(poly, plane)}, c \in {classificationsOf(poly, plane)} })

cutWithPlane(poly, plane) ==
    IF ~hasOutside(poly, plane) THEN poly
    ELSE IF ~hasInside(poly, plane) THEN EmptyPoly
    ELSE rebuild(poly, plane)

\* ------------------------------------------------------------------------
\* getVolume
\* ------------------------------------------------------------------------
RECURSIVE fanVolume(_, _, _)
fanVolume(vertices, face, i) ==
    IF i < 1 THEN Zero
    ELSE RAdd(fanVolume(vertices, face, i - 1),
              RMul(dot(At(vertices, At(face, 0)),
                       cross(At(vertices, At(face, i)), At(vertices, At(face, i + 1)))),
                   <<1, 6>>))

RECURSIVE signedVolume(_, _)
signedVolume(poly, f) ==
    IF f = 0 THEN Zero
    ELSE RAdd(signedVolume(poly, f - 1),
              IF Len(poly.faces[f]) < 3 THEN Zero
              ELSE fanVolume(poly.vertices, poly.faces[f], Len(poly.faces[f]) - 2))

getVolume(poly) ==
    IF Len(poly.vertices) < 4 \/ Len(poly.faces) < 4 THEN Zero
    ELSE RAbs(signedVolume(poly, Len(poly.faces)))

\* ------------------------------------------------------------------------
\* getCentroid
\* ------------------------------------------------------------------------
RECURSIVE sumAll(_, _)
sumAll(vertices, k) ==
    IF k = 0 THEN ZeroVec ELSE add(sumAll(vertices, k - 1), vertices[k])

getCentroid(poly) ==
    IF Len(poly.vertices) = 0 THEN ZeroVec
    ELSE scale(sumAll(poly.vertices, Len(poly.vertices)), <<1, Len(poly.vertices)>>)

\* ------------------------------------------------------------------------
\* getEdges
\* ------------------------------------------------------------------------
\* A string is a sequence of characters.
DigitChars == <<"0", "1", "2", "3", "4", "5", "6", "7", "8", "9">>

RECURSIVE natToString(_)
natToString(n) ==
    IF n < 10 THEN <<DigitChars[n + 1]>>
    ELSE natToString(n \div 10) \o <<DigitChars[(n % 10) + 1]>>

\* `${n}`
numberToString(n) == IF n < 0 THEN <<"-">> \o natToString(-n) ELSE natToString(n)

\* mutant: the key keeps the direction in which the face walks the edge
edgeKeyString_directed(a, b) == numberToString(a) \o <<"-">> \o numberToString(b)

\* a < b ? `${a}-${b}` : `${b}-${a}`
edgeKeyString(a, b) ==
    IF a < b THEN numberToString(a) \o <<"-">> \o numberToString(b)
    ELSE numberToString(b) \o <<"-">> \o numberToString(a)

\* Set.prototype.add: a Set keeps its elements in insertion order
setAdd(set, key) ==
    IF \E q \in 1..Len(set) : set[q] = key THEN set ELSE Append(set, key)

RECURSIVE faceEdgeKeys(_, _, _)
faceEdgeKeys(face, i, edges) ==
    IF i >= Len(face) THEN edges
    ELSE The({ faceEdgeKeys(face, i + 1, e)
               : e \in {setAdd(edges, edgeKeyString(At(face, i),
                                                    At(face, (i + 1) % Len(face))))} })

RECURSIVE edgeKeys(_, _, _)
edgeKeys(faces, f, edges) ==
    IF f > Len(faces) THEN edges
    ELSE The({ edgeKeys(faces, f + 1, e) : e \in {faceEdgeKeys(faces[f], 0, edges)} })

\* key.split('-'): the pieces of the first k characters
RECURSIVE split(_, _)
split(str, k) ==
    IF k = 0 THEN << <<>> >>
    ELSE The({ IF str[k] = "-" THEN Append(r, <<>>)
               ELSE [r EXCEPT ![Len(r)] = Append(@, str[k])]
               : r \in {split(str, k - 1)} })

digitValue(c) == CHOOSE d \in 0..9 : DigitChars[d + 1] = c

\* Number(str) for a string of digits; Number("") is 0
RECURSIVE parseNumber(_, _)
parseNumber(str, k) ==
    IF k = 0 THEN 0 ELSE 10 * parseNumber(str, k - 1) + digitValue(str[k])

\* const [a, b] = key.split('-').map(Number); return [a, b]
keyToPair(key) ==
    The({ << parseNumber(parts[1], Len(parts[1])), parseNumber(parts[2], Len(parts[2])) >>
          : parts \in {split(key, Len(key))} })

getEdges(p) ==
    The({ [q \in 1..Len(keys) |-> keyToPair(keys[q])]
          : keys \in {edgeKeys(p.faces, 1, <<>>)} })

\* ------------------------------------------------------------------------
\* cellToMeshData
\* ------------------------------------------------------------------------
RECURSIVE flatVertices(_, _)
flatVertices(vertices, k) ==
    IF k = 0 THEN <<>>
    ELSE flatVertices(vertices, k - 1) \o <<vertices[k].x, vertices[k].y, vertices[k].z>>

\* mutant: a strip, each triangle made of three consecutive vertices
RECURSIVE fanIndices_strip(_, _, _)
fanIndices_strip(face, i, indices) ==
    IF i >= Len(face) - 1 THEN indices
    ELSE The({ fanIndices_strip(face, i + 1, x)
               : x \in {indices \o <<At(face, i - 1), At(face, i), At(face, i + 1)>>} })

\* for (let i = 1; i < face.length - 1; i++) indices.push(face[0], face[i], face[i + 1])
RECURSIVE fanIndices(_, _, _)
fanIndices(face, i, indices) ==
    IF i >= Len(face) - 1 THEN indices
    ELSE The({ fanIndices(face, i + 1, x)
               : x \in {indices \o <<At(face, 0), At(face, i), At(face, i + 1)>>} })

RECURSIVE meshIndices(_, _, _)
meshIndices(faces, f, indices) ==
    IF f > Len(faces) THEN indices
    ELSE The({ meshIndices(faces, f + 1, x)
               : x \in { IF Len(faces[f]) < 3 THEN indices
                         ELSE fanIndices(faces[f], 1, indices) } })

\* the center of a face; 0 / 0 is NaN
faceCenter(vertices, face) ==
    IF Len(face) = 0 THEN [x |-> "NaN", y |-> "NaN", z |-> "NaN"]
    ELSE scale(sumVertices(vertices, face, Len(face)), <<1, Len(face)>>)

faceDataOf(cell) ==
    [f \in 1..Len(cell.faces) |->
        [vertices |-> cell.faces[f], center |-> faceCenter(cell.vertices, cell.faces[f])]]

cellToMeshData(c) ==
    [vertices |-> flatVertices(c.vertices, Len(c.vertices)),
     indices |-> meshIndices(c.faces, 1, <<>>),
     edges |-> getEdges(c),
     faceData |-> faceDataOf(c),
     vertexCount |-> Len(c.vertices),
     faceCount |-> Len(c.faces),
     volume |-> getVolume(c),
     centroid |-> getCentroid(c)]

\* ------------------------------------------------------------------------
\* State
\* ------------------------------------------------------------------------
VARIABLES
    poly,           \* a ConvexPolyhedron under a sequence of cuts
    lastPlane,      \* the plane of the latest cutWithPlane call on poly
    prevPlane,      \* the plane of the call before that one
    prevPoly,       \* poly as it was before that call
    ncuts,          \* number of cutWithPlane calls made on poly
    pc,             \* position inside computeVoronoiCells
    seeds,          \* argument: the seed list
    bounds,         \* argument: [min, max]
    padding,        \* argument
    cells,          \* the result list being built
    si,             \* index (1-based) of the seed of the outer loop
    cell,           \* the polyhedron of the current seed
    otherSeeds,     \* the sorted list of the other seeds
    oi,             \* index (1-based) of the next entry of otherSeeds
    cutsDone,       \* number of cutWithPlane calls made for the current seed
    finals,         \* history: the polyhedron each processed seed ended with
    mesh,           \* the object returned by cellToMeshData(poly), or NoMesh
    args,           \* the arguments of a call of a pure function
    result,         \* what that call returned, or NoResult
    app             \* the application layer: its state, the loading
                    \* indicator and the pending timer callbacks, or NoApp

polyVars == <<poly, lastPlane, prevPlane, prevPoly, ncuts, mesh, args, result, app>>
driverVars == <<pc, seeds, bounds, padding, cells, si, cell, otherSeeds, oi, cutsDone,
                finals>>
vars == <<poly, lastPlane, prevPlane, prevPoly, ncuts,
          pc, seeds, bounds, padding, cells, si, cell, otherSeeds, oi, cutsDone,
          finals, mesh, args, result, app>>

NoPlane == [normal |-> ZeroVec, len2 |-> <<-1, 1>>, d |-> Zero]

\* cellToMeshData not called yet
NoMesh == [vertexCount |-> -1]

\* no pure function called yet
NoResult == [op |-> "none"]

\* the application layer is not running
NoApp == [phase |-> "none"]

callIdle == mesh = NoMesh /\ args = <<>> /\ result = NoResult /\ app = NoApp

\* ------------------------------------------------------------------------
\* Bounds of the model
\* ------------------------------------------------------------------------
MaxCuts == 2
MaxSeeds == 3

\* Boxes given to createBox: <<min, max>> of a cube, as rationals
CutBoxes == { << <<-1, 2>>, <<1, 2>> >>,
              << <<-2, 1>>, <<2, 1>> >>,
              << <<1, 1>>, <<3, 1>> >> }

CutPoints == { IVec(0, 0, 0), IVec(1, 0, 0), IVec(2, 2, 2), IVec(-1, 1, 0) }

CutNormals == { IVec(1, 0, 0), IVec(-1, 0, 0), IVec(0, 1, 0), IVec(0, 0, -1),
                IVec(1, 1, 0), IVec(1, 1, 1), IVec(1, -2, 0), IVec(0, 0, 0) }

CutPlanes == { fromPointAndNormal(p, n) : p \in CutPoints, n \in CutNormals }

\* ------------------------------------------------------------------------
\* A polyhedron under cuts
\* ------------------------------------------------------------------------
DriverIdle ==
    /\ pc = "idle" /\ seeds = <<>> /\ bounds = [min |-> ZeroVec, max |-> ZeroVec]
    /\ padding = Zero
    /\ cells = <<>> /\ si = 0 /\ cell = EmptyPoly /\ otherSeeds = <<>> /\ oi = 0
    /\ cutsDone = 0 /\ finals = <<>>

InitCut ==
    /\ \E b \in CutBoxes : poly = createBox(b[1], b[1], b[1], b[2], b[2], b[2])
    /\ lastPlane = NoPlane
    /\ prevPlane = NoPlane
    /\ prevPoly = poly
    /\ ncuts = 0
    /\ DriverIdle
    /\ callIdle

CutWithPlane(plane) ==
    /\ ncuts < MaxCuts
    /\ poly' = cutWithPlane(poly, plane)
    /\ prevPoly' = poly
    /\ lastPlane' = plane
    /\ prevPlane' = lastPlane
    /\ ncuts' = ncuts + 1
    /\ UNCHANGED driverVars
    /\ UNCHANGED <<mesh, args, result, app>>

NextCut == \E plane \in CutPlanes : CutWithPlane(plane)

SpecCut == InitCut /\ [][NextCut]_vars

\* ------------------------------------------------------------------------
\* A polyhedron under cuts, then handed to cellToMeshData
\* ------------------------------------------------------------------------
\* mutant: the faces are taken out of the polyhedron while they are read
CellToMeshData_draining ==
    /\ mesh' = cellToMeshData(poly)
    /\ poly' = [poly EXCEPT !.faces = <<>>]
    /\ UNCHANGED <<lastPlane, prevPlane, prevPoly, ncuts, args, result, app>>
    /\ UNCHANGED driverVars

\* cellToMeshData(poly): nothing of the polyhedron is assigned
CellToMeshData ==
    /\ mesh' = cellToMeshData(poly)
    /\ UNCHANGED <<poly, lastPlane, prevPlane, prevPoly, ncuts, args, result, app>>
    /\ UNCHANGED driverVars

\* the renderer converts finished cells: the cuts come before the conversion
CutBeforeMesh(plane) == mesh = NoMesh /\ CutWithPlane(plane)

NextMesh ==
    \/ \E plane \in CutPlanes : CutBeforeMesh(plane)
    \/ CellToMeshData

SpecMesh == InitCut /\ [][NextMesh]_vars

\* ------------------------------------------------------------------------
\* Plane.perpendicularBisector and signedDistance, called on their own
\* ------------------------------------------------------------------------
BisectorPoints == { IVec(0, 0, 0), IVec(1, 0, 0), IVec(-1, 2, 0),
                    IVec(2, 2, 2), IVec(1, 1, 3), IVec(0, -3, 1) }

\* the points at which a distance is asked: the pool and its midpoints
ProbePoints ==
    BisectorPoints \cup { scale(add(a, b), <<1, 2>>) : a \in BisectorPoints, b \in BisectorPoints }

InitBisector ==
    /\ args \in BisectorPoints \X BisectorPoints
    /\ result = NoResult
    /\ mesh = NoMesh
    /\ app = NoApp
    /\ poly = EmptyPoly /\ prevPoly = EmptyPoly
    /\ lastPlane = NoPlane /\ prevPlane = NoPlane /\ ncuts = 0
    /\ DriverIdle

\* Plane.perpendicularBisector(p1, p2)
PerpendicularBisector ==
    /\ result = NoResult
    /\ result' = [op |-> "perpendicularBisector",
                  plane |-> perpendicularBisector(args[1], args[2])]
    /\ UNCHANGED <<poly, lastPlane, prevPlane, prevPoly, ncuts, mesh, args, app>>
    /\ UNCHANGED driverVars

\* plane.signedDistance(point) on the plane returned
SignedDistance(point) ==
    /\ result.op = "perpendicularBisector"
    /\ result' = [op |-> "signedDistance", plane |-> result.plane, point |-> point,
                  distance |-> signedDistance(result.plane, point)]
    /\ UNCHANGED <<poly, lastPlane, prevPlane, prevPoly, ncuts, mesh, args, app>>
    /\ UNCHANGED driverVars

NextBisector ==
    \/ PerpendicularBisector
    \/ \E point \in ProbePoints : SignedDistance(point)

SpecBisector == InitBisector /\ [][NextBisector]_vars

\* ------------------------------------------------------------------------
\* The application layer: regeneration requests and the loading indicator
\* ------------------------------------------------------------------------
\* the most timer callbacks pending at one time
MaxPending == 2

\* values the controls hand to the setters
GridSizes == {4, 8}
LayerSpacings == { <<4, 5>>, <<3, 2>> }
DistributionIds == {"honeycomb", "random", "bcc", "unknown"}

\* the keys of DISTRIBUTIONS
DISTRIBUTIONS == {"random", "bcc", "fcc", "simpleCubic", "fibonacciSphere"}

\* what generateVisualization reads from state
settingsOf(a) ==
    [gridSize |-> a.gridSize, layerSpacing |-> a.layerSpacing,
     currentDistribution |-> a.currentDistribution]

\* loading.classList.remove('hidden')
showLoading(a) == [a EXCEPT !.loadingHidden = FALSE]

\* loading.classList.add('hidden')
hideLoading(a) == [a EXCEPT !.loadingHidden = TRUE]

\* generateVisualization(): the scene is rebuilt from the current state
generateVisualization(a) == [a EXCEPT !.generated = settingsOf(a)]

\* setTimeout(() => { generateVisualization(); hideLoading(); }, 50): the
\* delays are equal, so the callbacks run in the order they were set
setTimeout(a) == [a EXCEPT !.timers = Append(a.timers, "regenerate")]

\* the state after init(): first visualization generated, indicator hidden
InitLoading ==
    /\ app = [phase |-> "running",
              gridSize |-> 6, layerSpacing |-> <<1, 1>>,
              currentDistribution |-> "honeycomb",
              loadingHidden |-> TRUE,
              timers |-> <<>>,
              generated |-> [gridSize |-> 6, layerSpacing |-> <<1, 1>>,
                             currentDistribution |-> "honeycomb"]]
    /\ mesh = NoMesh /\ args = <<>> /\ result = NoResult
    /\ poly = EmptyPoly /\ prevPoly = EmptyPoly
    /\ lastPlane = NoPlane /\ prevPlane = NoPlane /\ ncuts = 0
    /\ DriverIdle

appFrame ==
    /\ UNCHANGED <<poly, lastPlane, prevPlane, prevPoly, ncuts, mesh, args, result>>
    /\ UNCHANGED driverVars

SetGridSize(size) ==
    /\ Len(app.timers) < MaxPending
    /\ app' = setTimeout(showLoading([app EXCEPT !.gridSize = size]))
    /\ appFrame

SetLayerSpacing(spacing) ==
    /\ Len(app.timers) < MaxPending
    /\ app' = setTimeout(showLoading([app EXCEPT !.layerSpacing = spacing]))
    /\ appFrame

\* an id that is neither a key of DISTRIBUTIONS nor 'honeycomb' does nothing
SetDistribution(distributionId) ==
    /\ Len(app.timers) < MaxPending
    /\ app' = IF distributionId \in DISTRIBUTIONS \/ distributionId = "honeycomb"
              THEN setTimeout(showLoading([app EXCEPT !.currentDistribution = distributionId]))
              ELSE app
    /\ appFrame

\* the oldest pending callback runs: generateVisualization(); hideLoading()
TimerFires ==
    /\ Len(app.timers) > 0
    /\ app' = hideLoading(generateVisualization([app EXCEPT !.timers = Tail(app.timers)]))
    /\ appFrame

NextLoading ==
    \/ \E size \in GridSizes : SetGridSize(size)
    \/ \E spacing \in LayerSpacings : SetLayerSpacing(spacing)
    \/ \E distributionId \in DistributionIds : SetDistribution(distributionId)
    \/ TimerFires

SpecLoading == InitLoading /\ [][NextLoading]_vars

\* ------------------------------------------------------------------------
\* computeVoronoiCells
\* ------------------------------------------------------------------------
\* A seed object: `id` stands for the object's identity (s !== seed compares
\* identities), `layer` for the extra fields a generator attaches.
Seed(id, x, y, z, layer) ==
    [id |-> id, x |-> Int2R(x), y |-> Int2R(y), z |-> Int2R(z), layer |-> layer]

SeedPool == { Seed(1, -1, 0, 0, "A"), Seed(2, 1, 0, 0, "B"), Seed(3, 0, 1, 1, "A"),
              Seed(4, 1, 0, 0, "A"), Seed(5, 2, 0, 0, "B"), Seed(6, 3, 0, 0, "A") }

SeedLists ==
    { q \in UNION { [1..n -> SeedPool] : n \in 0..MaxSeeds } :
        \A i, j \in 1..Len(q) : i # j => q[i].id # q[j].id }

BoundsPool == { [min |-> IVec(-2, -2, -2), max |-> IVec(2, 2, 2)],
                [min |-> IVec(1, -1, -1), max |-> IVec(4, 1, 1)] }

Paddings == { <<0, 1>>, <<1, 2>> }

\* mutant: the padding applied with the wrong sign
expandedBounds_shrunk(b, pad) ==
    [min |-> Vec3(RAdd(b.min.x, pad), RAdd(b.min.y, pad), RAdd(b.min.z, pad)),
     max |-> Vec3(RSub(b.max.x, pad), RSub(b.max.y, pad), RSub(b.max.z, pad))]

expandedBounds(b, pad) ==
    [min |-> Vec3(RSub(b.min.x, pad), RSub(b.min.y, pad), RSub(b.min.z, pad)),
     max |-> Vec3(RAdd(b.max.x, pad), RAdd(b.max.y, pad), RAdd(b.max.z, pad))]

seedVecOf(seed) == Vec3(seed.x, seed.y, seed.z)

\* The distance is kept as its square; Math.sqrt is increasing, so the order
\* of the sort is the same.
distance2(s, seed) ==
    RAdd(RAdd(RMul(RSub(s.x, seed.x), RSub(s.x, seed.x)),
              RMul(RSub(s.y, seed.y), RSub(s.y, seed.y))),
         RMul(RSub(s.z, seed.z), RSub(s.z, seed.z)))

\* .filter(s => s !== seed).map(s => ({seed: s, distance: ...}))
RECURSIVE filterMap(_, _, _)
filterMap(seedList, seed, k) ==
    IF k = 0 THEN <<>>
    ELSE The({ IF seedList[k].id # seed.id
               THEN Append(rest, [seed |-> seedList[k],
                                  distance |-> distance2(seedList[k], seed)])
               ELSE rest
               : rest \in {filterMap(seedList, seed, k - 1)} })

\* .sort((a, b) => a.distance - b.distance), a stable sort
RECURSIVE insertByDistance(_, _)
insertByDistance(sorted, e) ==
    The({ IF s = <<>> THEN <<e>>
          ELSE IF RLess(e.distance, Head(s).distance)
               THEN <<e>> \o s
               ELSE <<Head(s)>> \o insertByDistance(Tail(s), e)
          : s \in {sorted} })

RECURSIVE sortByDistance(_, _)
sortByDistance(list, k) ==
    IF k = 0 THEN <<>> ELSE insertByDistance(sortByDistance(list, k - 1), list[k])

otherSeedsOf(seedList, seed) ==
    The({ sortByDistance(l, Len(l)) : l \in {filterMap(seedList, seed, Len(seedList))} })

\* Math.max(...cell.vertices.map(v => bisector.signedDistance(v)))
RECURSIVE maxDistOf(_, _, _)
maxDistOf(vertices, plane, k) ==
    IF k = 1 THEN signedDistance(plane, vertices[1])
    ELSE The({ IF RLess(m, d) THEN d ELSE m
               : m \in {maxDistOf(vertices, plane, k - 1)},
                 d \in {signedDistance(plane, vertices[k])} })

\* mutant: Math.min instead of Math.max, one vertex inside is enough to skip
allStrictlyInside_min(c, plane) ==
    \E i \in 1..Len(c.vertices) : RSign(signedDistance(plane, c.vertices[i])) < 0

\* mutant: only the first vertex is looked at
allStrictlyInside_first(c, plane) ==
    RSign(signedDistance(plane, c.vertices[1])) < 0

\* maxDist < -EPSILON
allStrictlyInside(c, plane) ==
    RSign(maxDistOf(c.vertices, plane, Len(c.vertices))) < 0

bisectorOf(seed, other) == perpendicularBisector(seedVecOf(seed), seedVecOf(other.seed))

polyIdle ==
    /\ poly = EmptyPoly /\ prevPoly = EmptyPoly
    /\ lastPlane = NoPlane /\ prevPlane = NoPlane /\ ncuts = 0
    /\ callIdle

InitVoronoi ==
    /\ pc = "call"
    /\ seeds \in SeedLists
    /\ bounds \in BoundsPool
    /\ padding \in Paddings
    /\ cells = <<>> /\ si = 0 /\ cell = EmptyPoly /\ otherSeeds = <<>> /\ oi = 0
    /\ cutsDone = 0 /\ finals = <<>>
    /\ polyIdle

\* mutant: no early return, and a cell made of the box for a seed that is absent
ReturnEmpty_boxed ==
    /\ pc = "call" /\ Len(seeds) = 0
    /\ pc' = "done"
    /\ LET eb == expandedBounds(bounds, padding)
       IN  cells' = << [seed |-> "undefined",
                        cell |-> createBox(eb.min.x, eb.min.y, eb.min.z,
                                           eb.max.x, eb.max.y, eb.max.z)] >>
    /\ UNCHANGED <<seeds, bounds, padding, si, cell, otherSeeds, oi, cutsDone, finals>>
    /\ UNCHANGED polyVars

\* if (seeds.length === 0) return [];
ReturnEmpty ==
    /\ pc = "call" /\ Len(seeds) = 0
    /\ pc' = "done"
    /\ cells' = <<>>
    /\ UNCHANGED <<seeds, bounds, padding, si, cell, otherSeeds, oi, cutsDone, finals>>
    /\ UNCHANGED polyVars

\* const cells = []; the outer loop starts
Start ==
    /\ pc = "call" /\ Len(seeds) # 0
    /\ pc' = "seed"
    /\ cells' = <<>>
    /\ si' = 1
    /\ UNCHANGED <<seeds, bounds, padding, cell, otherSeeds, oi, cutsDone, finals>>
    /\ UNCHANGED polyVars

\* mutant: the caller's array is sorted in place, without the filter's copy
BeginSeed_sortInPlace ==
    /\ pc = "seed"
    /\ LET eb == expandedBounds(bounds, padding)
       IN  cell' = createBox(eb.min.x, eb.min.y, eb.min.z, eb.max.x, eb.max.y, eb.max.z)
    /\ otherSeeds' = otherSeedsOf(seeds, seeds[si])
    /\ LET all == [k \in 1..Len(seeds) |->
                     [seed |-> seeds[k], distance |-> distance2(seeds[k], seeds[si])]]
           sorted == sortByDistance(all, Len(all))
       IN  seeds' = [k \in 1..Len(seeds) |-> sorted[k].seed]
    /\ oi' = 1
    /\ cutsDone' = 0
    /\ pc' = "cut"
    /\ UNCHANGED <<bounds, padding, cells, si, finals>>
    /\ UNCHANGED polyVars

\* the head of the outer loop body: the box and the sorted other seeds
BeginSeed ==
    /\ pc = "seed"
    /\ LET eb == expandedBounds(bounds, padding)
       IN  cell' = createBox(eb.min.x, eb.min.y, eb.min.z, eb.max.x, eb.max.y, eb.max.z)
    /\ otherSeeds' = otherSeedsOf(seeds, seeds[si])
    /\ oi' = 1
    /\ cutsDone' = 0
    /\ pc' = "cut"
    /\ UNCHANGED <<seeds, bounds, padding, cells, si, finals>>
    /\ UNCHANGED polyVars

\* mutant: return instead of break, an empty cell ends the whole computation
LoopExit_return ==
    /\ pc = "cut"
    /\ oi > Len(otherSeeds) \/ Len(cell.vertices) = 0
    /\ pc' = IF Len(cell.vertices) = 0 THEN "done" ELSE "push"
    /\ UNCHANGED <<seeds, bounds, padding, cells, si, cell, otherSeeds, oi, cutsDone, finals>>
    /\ UNCHANGED polyVars

\* the inner loop ends: no other seed left, or the cell is empty (break)
LoopExit ==
    /\ pc = "cut"
    /\ oi > Len(otherSeeds) \/ Len(cell.vertices) = 0
    /\ pc' = "push"
    /\ UNCHANGED <<seeds, bounds, padding, cells, si, cell, otherSeeds, oi, cutsDone, finals>>
    /\ UNCHANGED polyVars

\* maxDist < -EPSILON: continue
SkipCut ==
    /\ pc = "cut"
    /\ oi <= Len(otherSeeds) /\ Len(cell.vertices) # 0
    /\ allStrictlyInside(cell, bisectorOf(seeds[si], otherSeeds[oi]))
    /\ oi' = oi + 1
    /\ UNCHANGED <<pc, seeds, bounds, padding, cells, si, cell, otherSeeds, cutsDone, finals>>
    /\ UNCHANGED polyVars

\* cell.cutWithPlane(bisector)
CutCell ==
    /\ pc = "cut"
    /\ oi <= Len(otherSeeds) /\ Len(cell.vertices) # 0
    /\ ~allStrictlyInside(cell, bisectorOf(seeds[si], otherSeeds[oi]))
    /\ cell' = cutWithPlane(cell, bisectorOf(seeds[si], otherSeeds[oi]))
    /\ oi' = oi + 1
    /\ cutsDone' = cutsDone + 1
    /\ UNCHANGED <<pc, seeds, bounds, padding, cells, si, otherSeeds, finals>>
    /\ UNCHANGED polyVars

\* mutant: the cell is pushed without looking at its vertex count
EndSeed_pushAlways ==
    /\ pc = "push"
    /\ cells' = Append(cells, [seed |-> seeds[si], cell |-> cell])
    /\ finals' = Append(finals, cell)
    /\ IF si < Len(seeds)
       THEN pc' = "seed" /\ si' = si + 1
       ELSE pc' = "done" /\ si' = si
    /\ UNCHANGED <<seeds, bounds, padding, cell, otherSeeds, oi, cutsDone>>
    /\ UNCHANGED polyVars

\* if (cell.vertices.length > 0) cells.push({seed, cell}); next seed or return
EndSeed ==
    /\ pc = "push"
    /\ cells' = IF Len(cell.vertices) > 0
                THEN Append(cells, [seed |-> seeds[si], cell |-> cell])
                ELSE cells
    /\ finals' = Append(finals, cell)
    /\ IF si < Len(seeds)
       THEN pc' = "seed" /\ si' = si + 1
       ELSE pc' = "done" /\ si' = si
    /\ UNCHANGED <<seeds, bounds, padding, cell, otherSeeds, oi, cutsDone>>
    /\ UNCHANGED polyVars

NextVoronoi ==
    \/ ReturnEmpty
    \/ Start
    \/ BeginSeed
    \/ LoopExit
    \/ SkipCut
    \/ CutCell
    \/ EndSeed

SpecVoronoi == InitVoronoi /\ [][NextVoronoi]_vars

\* ------------------------------------------------------------------------
\* Geometry used to state the properties
\* ------------------------------------------------------------------------
\* Newell normal of a face: the sum of v_i x v_(i+1) around the face.  It
\* points to the side from which the vertices are seen counter-clockwise.
RECURSIVE newellNormal(_, _, _)
newellNormal(vertices, face, k) ==
    IF k = 0 THEN ZeroVec
    ELSE add(newellNormal(vertices, face, k - 1),
             cross(At(vertices, face[k]), At(vertices, face[(k % Len(face)) + 1])))

faceOutward(p, face) ==
    RSign(dot(newellNormal(p.vertices, face, Len(face)),
              sub(At(p.vertices, face[1]), getCentroid(p)))) > 0

facesOutward(p) == \A f \in 1..Len(p.faces) : faceOutward(p, p.faces[f])

\* Volume by pyramids from an interior point, independent of the winding
\* of the faces and of the coordinate origin.
RECURSIVE fanPyramids(_, _, _, _)
fanPyramids(vertices, face, c, i) ==
    IF i < 1 THEN Zero
    ELSE RAdd(fanPyramids(vertices, face, c, i - 1),
              RMul(RAbs(dot(sub(At(vertices, At(face, 0)), c),
                            cross(sub(At(vertices, At(face, i)), c),
                                  sub(At(vertices, At(face, i + 1)), c)))),
                   <<1, 6>>))

RECURSIVE sumPyramids(_, _)
sumPyramids(p, f) ==
    IF f = 0 THEN Zero
    ELSE RAdd(sumPyramids(p, f - 1),
              fanPyramids(p.vertices, p.faces[f], getCentroid(p), Len(p.faces[f]) - 2))

geometricVolume(p) == sumPyramids(p, Len(p.faces))

vertexSet(p) == { p.vertices[i] : i \in 1..Len(p.vertices) }

UnitBox == createBox(<<-1, 2>>, <<-1, 2>>, <<-1, 2>>, <<1, 2>>, <<1, 2>>, <<1, 2>>)
PlaneX0 == fromPointAndNormal(IVec(0, 0, 0), IVec(1, 0, 0))

\* ------------------------------------------------------------------------
\* Properties of a polyhedron under cuts (SpecCut)
\* ------------------------------------------------------------------------
\* C3: in the box and after any sequence of cuts every face, cap faces
\* included, lists its vertices counter-clockwise seen from outside: its
\* Newell normal points away from the interior.
C3_FacesWoundOutward == Len(poly.vertices) > 0 => facesOutward(poly)

\* C4: the volume reported by getVolume equals the geometric volume of the
\* solid, wherever the solid and the cutting planes lie.
C4_VolumeIsGeometric == getVolume(poly) = geometricVolume(poly)

\* C9: the unit box cut by x = 0 (normal +x) has exactly 8 vertices, the
\* corners of [-1/2,0] x [-1/2,1/2] x [-1/2,1/2], and reports volume 1/2.
C9_UnitBoxHalved ==
    (ncuts = 1 /\ prevPoly = UnitBox /\ lastPlane = PlaneX0)
    => /\ Len(poly.vertices) = 8
       /\ vertexSet(poly) = { Vec3(x, y, z) : x \in { <<-1, 2>>, <<0, 1>> },
                                              y \in { <<-1, 2>>, <<1, 2>> },
                                              z \in { <<-1, 2>>, <<1, 2>> } }
       /\ getVolume(poly) = <<1, 2>>

C9_Witness == ncuts = 1 /\ prevPoly = UnitBox /\ lastPlane = PlaneX0

\* C10: a second cutWithPlane with the same plane, right after the first,
\* leaves the vertex list and the face list as the first call left them.
C10_CutIdempotent ==
    (ncuts >= 2 /\ lastPlane = prevPlane) => poly = prevPoly

\* the repeated plane really cut: the polyhedron has a cap and is not a box
C10_Witness ==
    /\ ncuts = 2 /\ lastPlane = prevPlane
    /\ Len(poly.faces) = 7
    /\ \E i \in 1..Len(poly.vertices) : classify(signedDistance(lastPlane, poly.vertices[i])) = ON

\* the sides of a plane, by the sign of the signed distance
beyond(plane, v) == RSign(signedDistance(plane, v)) > 0
behind(plane, v) == RSign(signedDistance(plane, v)) < 0
onPlane(plane, v) == RSign(signedDistance(plane, v)) = 0

someBeyond(p, plane) == \E i \in 1..Len(p.vertices) : beyond(plane, p.vertices[i])
someBehind(p, plane) == \E i \in 1..Len(p.vertices) : behind(plane, p.vertices[i])

\* C11: a plane that excludes the whole polyhedron (some vertex OUTSIDE, no
\* vertex INSIDE) leaves the polyhedron with 0 vertices and 0 faces.
C11_ExcludingPlaneEmpties ==
    (ncuts >= 1 /\ someBeyond(prevPoly, lastPlane) /\ ~someBehind(prevPoly, lastPlane))
    => (Len(poly.vertices) = 0 /\ Len(poly.faces) = 0)

\* the excluded polyhedron touched the plane: some of its vertices were ON
C11_Witness ==
    /\ ncuts >= 1
    /\ someBeyond(prevPoly, lastPlane) /\ ~someBehind(prevPoly, lastPlane)
    /\ \E i \in 1..Len(prevPoly.vertices) :
          onPlane(lastPlane, prevPoly.vertices[i])

indexValid(p) ==
    \A f \in 1..Len(p.faces) :
        /\ Len(p.faces[f]) >= 3
        /\ \A q \in 1..Len(p.faces[f]) :
              p.faces[f][q] >= 0 /\ p.faces[f][q] < Len(p.vertices)

\* C16: in the box and after any sequence of cuts, every index of every
\* face, the cap included, is a position of the vertex list and every face
\* has at least 3 vertices.
C16_IndexValidity == indexValid(poly)

\* two cuts that both made a cap, the second through vertices of the first
C16_Witness ==
    /\ ncuts = 2
    /\ someBeyond(prevPoly, lastPlane) /\ someBehind(prevPoly, lastPlane)
    /\ Len(prevPoly.faces) = 7
    /\ Len(poly.faces) >= 7
    /\ Len(poly.vertices) < Len(prevPoly.vertices)

\* the faces of p in which a and b are cyclically consecutive
facesWithEdge(p, a, b) ==
    { f \in 1..Len(p.faces) :
        \E q \in 1..Len(p.faces[f]) :
            {p.faces[f][q], p.faces[f][(q % Len(p.faces[f])) + 1]} = {a, b} }

closedBoundary(p) ==
    /\ \A f \in 1..Len(p.faces) : \A q \in 1..Len(p.faces[f]) :
          Cardinality(facesWithEdge(p, p.faces[f][q],
                                    p.faces[f][(q % Len(p.faces[f])) + 1])) = 2
    /\ \A i \in 0..(Len(p.vertices) - 1) :
          \E f \in 1..Len(p.faces) : \E q \in 1..Len(p.faces[f]) : p.faces[f][q] = i

\* C17: in the box and in every non-empty polyhedron reached by cuts, every
\* undirected edge belongs to exactly two faces and every vertex of the
\* vertex list is referenced by a face.
C17_ClosedBoundary == Len(poly.vertices) > 0 => closedBoundary(poly)

\* a cut through vertices of the polyhedron: some kept vertex is ON the plane
C17_Witness ==
    /\ ncuts = 2 /\ Len(poly.vertices) > 0
    /\ someBeyond(prevPoly, lastPlane) /\ someBehind(prevPoly, lastPlane)
    /\ \E i \in 1..Len(prevPoly.vertices) :
          onPlane(lastPlane, prevPoly.vertices[i])

\* C18: when no vertex is OUTSIDE (all INSIDE or ON, all ON included) the
\* cut leaves the vertex list and the face list as they were.
C18_NoOutsideNoChange ==
    (ncuts >= 1 /\ ~someBeyond(prevPoly, lastPlane)) => poly = prevPoly

\* a cut of a polyhedron with vertices ON the plane and none OUTSIDE
C18_Witness ==
    /\ ncuts >= 1 /\ ~someBeyond(prevPoly, lastPlane)
    /\ Len(prevPoly.vertices) > 0
    /\ \E i \in 1..Len(prevPoly.vertices) :
          onPlane(lastPlane, prevPoly.vertices[i])
    /\ someBehind(prevPoly, lastPlane)

notOutside(v) == ~beyond(lastPlane, v)

keptOriginals == SelectSeq(prevPoly.vertices, notOutside)

retainedHalfSpace ==
    /\ \A i \in 1..Len(poly.vertices) :
          RSign(signedDistance(lastPlane, poly.vertices[i])) <= 0
    /\ \A i \in 1..Len(prevPoly.vertices) :
          ~notOutside(prevPoly.vertices[i]) => prevPoly.vertices[i] \notin vertexSet(poly)

keptAtFront ==
    /\ Len(poly.vertices) >= Len(keptOriginals)
    /\ SubSeq(poly.vertices, 1, Len(keptOriginals)) = keptOriginals

\* C19 as stated: after a cut every vertex has signed distance at most 0 to
\* the plane, no OUTSIDE original remains, and every original vertex that
\* was INSIDE or ON is still there, unchanged and in order, at the front.
C19_KeptVerticesAlways ==
    ncuts >= 1 => (retainedHalfSpace /\ keptAtFront)

\* C19 amended: the same, the originals being kept when some vertex is
\* INSIDE or none is OUTSIDE; a polyhedron with a vertex OUTSIDE and none
\* INSIDE is emptied, its ON vertices included.
C19_KeptVertices ==
    ncuts >= 1 =>
      /\ retainedHalfSpace
      /\ (someBehind(prevPoly, lastPlane) \/ ~someBeyond(prevPoly, lastPlane)) => keptAtFront
      /\ (~someBehind(prevPoly, lastPlane) /\ someBeyond(prevPoly, lastPlane))
            => Len(poly.vertices) = 0

\* a cut that dropped vertices, kept an ON vertex and made new ones
C19_Witness ==
    /\ ncuts >= 1
    /\ someBehind(prevPoly, lastPlane) /\ someBeyond(prevPoly, lastPlane)
    /\ \E i \in 1..Len(prevPoly.vertices) :
          onPlane(lastPlane, prevPoly.vertices[i])
    /\ Len(poly.vertices) > Len(keptOriginals)

\* ------------------------------------------------------------------------
\* Properties of a rebuilding cut (SpecCut)
\* ------------------------------------------------------------------------
\* the latest call rebuilt the polyhedron: a vertex INSIDE and one OUTSIDE
rebuilt == ncuts >= 1 /\ someBehind(prevPoly, lastPlane) /\ someBeyond(prevPoly, lastPlane)

\* the side of the old vertex of index i: -1 INSIDE, 0 ON, 1 OUTSIDE
sideOf(i) == RSign(signedDistance(lastPlane, At(prevPoly.vertices, i)))

\* the undirected edges of the polyhedron before the cut, as index pairs
prevEdges ==
    { {prevPoly.faces[f][q], prevPoly.faces[f][(q % Len(prevPoly.faces[f])) + 1]} :
        <<f, q>> \in { fq \in (1..Len(prevPoly.faces)) \X (1..Len(prevPoly.vertices)) :
                         fq[2] <= Len(prevPoly.faces[fq[1]]) } }

crossingEdges == { e \in prevEdges : \E a, b \in e : sideOf(a) < 0 /\ sideOf(b) > 0 }

\* <<a, b>>: a ON the plane, b OUTSIDE, joined by an edge
boundaryPairs ==
    UNION { { ab \in e \X e : sideOf(ab[1]) = 0 /\ sideOf(ab[2]) > 0 } : e \in prevEdges }

keptCount == Cardinality({ i \in 0..(Len(prevPoly.vertices) - 1) : sideOf(i) <= 0 })

\* the positions (1-based) of the vertices the cut created
newPositions == (keptCount + 1)..Len(poly.vertices)

\* the index an old non-OUTSIDE vertex has after the cut
newIndexOf(a) == Cardinality({ j \in 0..(a - 1) : sideOf(j) <= 0 })

strictlyBetween(v, a, b) ==
    /\ cross(sub(v, a), sub(b, a)) = ZeroVec
    /\ RSign(dot(sub(v, a), sub(b, a))) > 0
    /\ RLess(dot(sub(v, a), sub(b, a)), dot(sub(b, a), sub(b, a)))

inPlaneFace(face) == \A q \in 1..Len(face) : onPlane(lastPlane, At(poly.vertices, face[q]))

capFaces == { f \in 1..Len(poly.faces) : inPlaneFace(poly.faces[f]) }

\* C22: a rebuilding cut creates exactly one vertex per undirected edge
\* joining an INSIDE and an OUTSIDE vertex: strictly between the edge's ends
\* and on the plane, referenced by both rebuilt faces that share the edge;
\* the vertex count is the non-OUTSIDE originals plus those edges.
C22_OneVertexPerCutEdge ==
    rebuilt =>
      \A crossing \in {crossingEdges}, created \in {newPositions},
         sideFaces \in {(1..Len(poly.faces)) \ capFaces} :
        /\ Len(poly.vertices) = keptCount + Cardinality(crossing)
        /\ \A e \in crossing : \E a, b \in e :
              /\ a < b
              /\ Cardinality({ n \in created :
                                 strictlyBetween(poly.vertices[n], At(prevPoly.vertices, a),
                                                 At(prevPoly.vertices, b)) }) = 1
        /\ \A n \in created :
              /\ onPlane(lastPlane, poly.vertices[n])
              /\ Cardinality({ f \in sideFaces :
                                 \E q \in 1..Len(poly.faces[f]) : poly.faces[f][q] = n - 1 }) = 2

\* a second cut that crossed six or more edges, some made by the first cut
C22_Witness ==
    /\ rebuilt /\ ncuts = 2 /\ Len(prevPoly.vertices) > 8
    /\ Cardinality(crossingEdges) >= 6

\* C23 as stated: for a boundary pair (one vertex ON, the next OUTSIDE) an
\* intersection point is computed and emitted as a new vertex, as for a
\* pair that straddles the plane.
C23_BoundaryPairNewVertex ==
    rebuilt =>
      \A created \in {newPositions} :
        \A ab \in boundaryPairs :
          \E n \in created : poly.vertices[n] = At(prevPoly.vertices, ab[1])

\* C23 amended: a boundary pair creates no vertex; its ON vertex, kept once
\* under its remapped index, marks the crossing and is a vertex of the cap,
\* and the only new vertices are those of the straddling edges.
C23_BoundaryPairKeepsOnVertex ==
    rebuilt =>
      /\ Len(poly.vertices) - keptCount = Cardinality(crossingEdges)
      /\ \A caps \in {capFaces} :
           \A ab \in boundaryPairs :
             /\ { n \in 1..Len(poly.vertices) : poly.vertices[n] = At(prevPoly.vertices, ab[1]) }
                  = { newIndexOf(ab[1]) + 1 }
             /\ \E f \in caps : \E q \in 1..Len(poly.faces[f]) :
                   poly.faces[f][q] = newIndexOf(ab[1])

\* a rebuilding cut through vertices of the polyhedron
C23_Witness == rebuilt /\ boundaryPairs # {} /\ crossingEdges # {}

capVertexSet ==
    { n - 1 : n \in newPositions } \cup { newIndexOf(ab[1]) : ab \in boundaryPairs }

\* the number of vertices the rebuilt face f of the old polyhedron gets
emittedInFace(f) ==
    Cardinality({ q \in 1..Len(prevPoly.faces[f]) : sideOf(prevPoly.faces[f][q]) <= 0 })
    + Cardinality({ q \in 1..Len(prevPoly.faces[f]) :
                      sideOf(prevPoly.faces[f][q])
                        * sideOf(prevPoly.faces[f][(q % Len(prevPoly.faces[f])) + 1]) < 0 })

rebuiltFaceCount == Cardinality({ f \in 1..Len(prevPoly.faces) : emittedInFace(f) >= 3 })

\* C24: a rebuilding cut adds exactly one cap face when there are at least 3
\* distinct cap vertices and none otherwise; the cap lists, once each, the
\* new intersection vertices and the ON vertices joined by an edge to an
\* OUTSIDE vertex, all on the plane; the face count is the rebuilt faces
\* that kept at least 3 vertices plus the cap.
C24_OneCapFace ==
    rebuilt =>
      \A capVertices \in {capVertexSet} :
        IF Cardinality(capVertices) >= 3
        THEN /\ capFaces = {Len(poly.faces)}
             /\ Len(poly.faces[Len(poly.faces)]) = Cardinality(capVertices)
             /\ { poly.faces[Len(poly.faces)][q] : q \in 1..Len(poly.faces[Len(poly.faces)]) }
                  = capVertices
             /\ Len(poly.faces) = rebuiltFaceCount + 1
        ELSE capFaces = {} /\ Len(poly.faces) = rebuiltFaceCount

\* a cap made of new vertices and of ON vertices together
C24_Witness ==
    /\ rebuilt /\ boundaryPairs # {} /\ crossingEdges # {}
    /\ Cardinality(capVertexSet) >= 5

\* ------------------------------------------------------------------------
\* Properties of cellToMeshData (SpecMesh)
\* ------------------------------------------------------------------------
\* a step that is a call of cellToMeshData
meshCall == mesh = NoMesh /\ mesh' # NoMesh

RECURSIVE sumFaceSizes(_, _)
sumFaceSizes(faces, f) ==
    IF f = 0 THEN 0 ELSE sumFaceSizes(faces, f - 1) + Len(faces[f])

\* where the triangles of face f start in the index buffer
fanOffset(faces, f) == 3 * (sumFaceSizes(faces, f - 1) - 2 * (f - 1))

fanBufferOf(p, indices) ==
    /\ Len(indices) = 3 * (sumFaceSizes(p.faces, Len(p.faces)) - 2 * Len(p.faces))
    /\ \A f \in 1..Len(p.faces) : \A i \in 1..(Len(p.faces[f]) - 2) :
          SubSeq(indices, fanOffset(p.faces, f) + 3 * i - 2, fanOffset(p.faces, f) + 3 * i)
            = << p.faces[f][1], p.faces[f][i + 1], p.faces[f][i + 2] >>
    /\ \A k \in 1..Len(indices) : indices[k] >= 0 /\ indices[k] < Len(p.vertices)

\* C12: for a polyhedron with F faces of at least 3 vertices each and face
\* sizes summing to E_total, the index buffer has length 3 * (E_total - 2F),
\* is made of the fan triangles (face[0], face[i], face[i+1]) of each face in
\* turn, and holds only valid vertex indices.
C12_FanIndexBuffer ==
    [][(meshCall /\ \A f \in 1..Len(poly.faces) : Len(poly.faces[f]) >= 3)
       => fanBufferOf(poly, mesh'.indices)]_vars

\* the mesh of a polyhedron with a cap of 5 or more vertices
C12_Witness ==
    /\ mesh # NoMesh /\ mesh.faceCount >= 7
    /\ \E f \in 1..Len(mesh.faceData) : Len(mesh.faceData[f].vertices) >= 5
    /\ Len(mesh.indices) > 36

faceEdgePairs(p) ==
    { {p.faces[f][q], p.faces[f][(q % Len(p.faces[f])) + 1]} :
        <<f, q>> \in { fq \in (1..Len(p.faces)) \X (1..Len(p.vertices)) :
                         fq[2] <= Len(p.faces[fq[1]]) } }

edgeListOf(p, edges) ==
    /\ \A k \in 1..Len(edges) : Len(edges[k]) = 2
    /\ \A j, k \in 1..Len(edges) : j # k => {edges[j][1], edges[j][2]} # {edges[k][1], edges[k][2]}
    /\ { {edges[k][1], edges[k][2]} : k \in 1..Len(edges) } = faceEdgePairs(p)

\* C13: the edge list holds each unordered pair of vertex indices that are
\* cyclically consecutive in some face exactly once, in either orientation,
\* and no other pair.
C13_EdgesOncePerPair ==
    [][meshCall => edgeListOf(poly, mesh'.edges)]_vars

\* the mesh of a cut polyhedron with an edge between two-digit indices
C13_Witness ==
    /\ mesh # NoMesh /\ ncuts >= 1
    /\ Len(mesh.edges) > 12
    /\ \E k \in 1..Len(mesh.edges) : mesh.edges[k][1] >= 10 /\ mesh.edges[k][2] >= 10

\* C14: a call of cellToMeshData leaves the vertex list and the face list of
\* the polyhedron exactly as they were.
C14_MeshReadOnly == [][meshCall => poly' = poly]_vars

\* the mesh of a polyhedron that two cuts shaped
C14_Witness ==
    /\ mesh # NoMesh /\ ncuts = 2
    /\ mesh.vertexCount = Len(poly.vertices) /\ mesh.vertexCount > 8
    /\ mesh.faceCount = Len(poly.faces)

\* ------------------------------------------------------------------------
\* Properties of Plane.perpendicularBisector (SpecBisector)
\* ------------------------------------------------------------------------
squaredDistance(a, b) ==
    RAdd(RAdd(RMul(RSub(a.x, b.x), RSub(a.x, b.x)), RMul(RSub(a.y, b.y), RSub(a.y, b.y))),
         RMul(RSub(a.z, b.z), RSub(a.z, b.z)))

midpointOf(a, b) == Vec3(RDiv(RAdd(a.x, b.x), Int2R(2)), RDiv(RAdd(a.y, b.y), Int2R(2)),
                         RDiv(RAdd(a.z, b.z), Int2R(2)))

\* the program's distance is result.distance / sqrt(result.plane.len2): it
\* is half of |p2 - p1| exactly when 4 distance^2 = len2 * |p2 - p1|^2
halfTheDistance(r, p1, p2) ==
    RMul(Int2R(4), RMul(r.distance, r.distance)) = RMul(r.plane.len2, squaredDistance(p1, p2))

\* C15: for distinct p1 and p2 the bisector gives distance 0 at the midpoint,
\* a negative distance at p1 and a positive one at p2, both of magnitude
\* half of |p2 - p1|, and a negative distance at exactly the points closer
\* to p1 than to p2.
C15_BisectorSides ==
    (result.op = "signedDistance" /\ args[1] # args[2]) =>
      /\ result.point = midpointOf(args[1], args[2]) => RSign(result.distance) = 0
      /\ result.point = args[1]
            => (RSign(result.distance) < 0 /\ halfTheDistance(result, args[1], args[2]))
      /\ result.point = args[2]
            => (RSign(result.distance) > 0 /\ halfTheDistance(result, args[1], args[2]))
      /\ RSign(result.distance) < 0
            <=> RLess(squaredDistance(result.point, args[1]),
                      squaredDistance(result.point, args[2]))

\* the distance asked at p2, for two points that differ in every coordinate
C15_Witness ==
    /\ result.op = "signedDistance"
    /\ args[1].x # args[2].x /\ args[1].y # args[2].y /\ args[1].z # args[2].z
    /\ result.point = args[2]
    /\ RSign(result.distance) > 0

\* ------------------------------------------------------------------------
\* Properties of computeVoronoiCells (SpecVoronoi)
\* ------------------------------------------------------------------------
paddedMin == Vec3(RSub(bounds.min.x, padding), RSub(bounds.min.y, padding),
                  RSub(bounds.min.z, padding))
paddedMax == Vec3(RAdd(bounds.max.x, padding), RAdd(bounds.max.y, padding),
                  RAdd(bounds.max.z, padding))

paddedBoxVolume ==
    RMul(RMul(RSub(paddedMax.x, paddedMin.x), RSub(paddedMax.y, paddedMin.y)),
         RSub(paddedMax.z, paddedMin.z))

strictlyInsidePadded(s) ==
    /\ RLess(paddedMin.x, s.x) /\ RLess(s.x, paddedMax.x)
    /\ RLess(paddedMin.y, s.y) /\ RLess(s.y, paddedMax.y)
    /\ RLess(paddedMin.z, s.z) /\ RLess(s.z, paddedMax.z)

nonDegenerateSeeds ==
    /\ Len(seeds) > 0
    /\ \A i \in 1..Len(seeds) : strictlyInsidePadded(seeds[i])
    /\ \A i, j \in 1..Len(seeds) : i # j => seedVecOf(seeds[i]) # seedVecOf(seeds[j])

RECURSIVE sumCellVolumes(_, _)
sumCellVolumes(cs, k) ==
    IF k = 0 THEN Zero ELSE RAdd(sumCellVolumes(cs, k - 1), getVolume(cs[k].cell))

\* C1: for pairwise distinct seeds strictly inside the padded box, the
\* volumes reported for the returned cells add up to the volume of the
\* padded box.
C1_VolumesPartitionBox ==
    (pc = "done" /\ nonDegenerateSeeds)
    => sumCellVolumes(cells, Len(cells)) = paddedBoxVolume

\* C2: no vertex of a returned cell (A, P) lies on the far side of the
\* bisector of A and any other seed B: its signed distance is not positive.
C2_VoronoiProperty ==
    pc = "done" =>
      \A k \in 1..Len(cells) : \A j \in 1..Len(seeds) :
        seeds[j].id # cells[k].seed.id
        => \A bisector \in { perpendicularBisector(seedVecOf(cells[k].seed),
                                                   seedVecOf(seeds[j])) } :
             \A i \in 1..Len(cells[k].cell.vertices) :
                RSign(signedDistance(bisector, cells[k].cell.vertices[i])) <= 0

\* two cells returned for seeds at different places, one of them bounded by
\* their bisector
C2_Witness ==
    /\ pc = "done" /\ Len(cells) >= 2
    /\ \E k \in 1..Len(cells) : \E j \in 1..Len(seeds) :
         /\ seedVecOf(seeds[j]) # seedVecOf(cells[k].seed)
         /\ \E i \in 1..Len(cells[k].cell.vertices) :
              RSign(signedDistance(
                      perpendicularBisector(seedVecOf(cells[k].seed), seedVecOf(seeds[j])),
                      cells[k].cell.vertices[i])) = 0

BoxFaces == << <<0, 3, 2, 1>>, <<4, 5, 6, 7>>, <<0, 1, 5, 4>>,
               <<2, 3, 7, 6>>, <<0, 4, 7, 3>>, <<1, 2, 6, 5>> >>

\* C5: one seed gives one cell, paired with that seed, whose polyhedron is
\* the padded box: its 8 corners and 6 quads, with no cut made.
C5_SingleSeedBox ==
    (pc = "done" /\ Len(seeds) = 1)
    => /\ Len(cells) = 1
       /\ cells[1].seed = seeds[1]
       /\ cutsDone = 0
       /\ cells[1].cell.faces = BoxFaces
       /\ cells[1].cell.vertices =
            << Vec3(paddedMin.x, paddedMin.y, paddedMin.z),
               Vec3(paddedMax.x, paddedMin.y, paddedMin.z),
               Vec3(paddedMax.x, paddedMax.y, paddedMin.z),
               Vec3(paddedMin.x, paddedMax.y, paddedMin.z),
               Vec3(paddedMin.x, paddedMin.y, paddedMax.z),
               Vec3(paddedMax.x, paddedMin.y, paddedMax.z),
               Vec3(paddedMax.x, paddedMax.y, paddedMax.z),
               Vec3(paddedMin.x, paddedMax.y, paddedMax.z) >>

C5_Witness == pc = "done" /\ Len(seeds) = 1 /\ padding # Zero /\ Len(cells) = 1

TwoSeedCase ==
    /\ Len(seeds) = 2
    /\ seedVecOf(seeds[1]) = IVec(-1, 0, 0)
    /\ seedVecOf(seeds[2]) = IVec(1, 0, 0)
    /\ bounds = [min |-> IVec(-2, -2, -2), max |-> IVec(2, 2, 2)]
    /\ padding = Zero

hasFaceInX0(c) ==
    \E f \in 1..Len(c.faces) :
        \A q \in 1..Len(c.faces[f]) : At(c.vertices, c.faces[f][q]).x = Zero

\* C6: seeds (-1,0,0) and (1,0,0) in [-2,2]^3 with padding 0 give two cells,
\* the first in x <= 0 and the second in x >= 0, each with a face in the
\* plane x = 0 and each reporting volume 32.
C6_TwoSeedsHalves ==
    (pc = "done" /\ TwoSeedCase)
    => /\ Len(cells) = 2
       /\ \A i \in 1..Len(cells[1].cell.vertices) :
             RLeq(cells[1].cell.vertices[i].x, Zero)
       /\ \A i \in 1..Len(cells[2].cell.vertices) :
             RLeq(Zero, cells[2].cell.vertices[i].x)
       /\ hasFaceInX0(cells[1].cell) /\ hasFaceInX0(cells[2].cell)
       /\ getVolume(cells[1].cell) = <<32, 1>>
       /\ getVolume(cells[2].cell) = <<32, 1>>

C6_Witness == pc = "done" /\ TwoSeedCase /\ Len(finals) = 2

\* C7: an empty seed list returns an empty list, whatever the bounds and
\* padding.
C7_EmptySeedsEmptyResult ==
    (pc = "done" /\ Len(seeds) = 0) => (cells = <<>> /\ finals = <<>>)

C7_Witness ==
    /\ pc = "done" /\ Len(seeds) = 0
    /\ padding # Zero /\ bounds.min # IVec(-2, -2, -2)

RECURSIVE expectedCells(_)
expectedCells(k) ==
    IF k = 0 THEN <<>>
    ELSE IF Len(finals[k].vertices) > 0
         THEN Append(expectedCells(k - 1), [seed |-> seeds[k], cell |-> finals[k]])
         ELSE expectedCells(k - 1)

\* C8: the result lists, in input order, one entry for each seed whose
\* polyhedron ended with a vertex and none for a seed whose polyhedron ended
\* empty; the entry's seed is the input seed with its extra fields.
C8_OneCellPerNonEmptySeed ==
    (pc = "done" /\ Len(seeds) > 0)
    => /\ Len(finals) = Len(seeds)
       /\ cells = expectedCells(Len(seeds))

\* a seed was dropped between two that were kept
C8_Witness ==
    /\ pc = "done" /\ Len(seeds) = 3 /\ Len(finals) = 3
    /\ Len(finals[1].vertices) > 0
    /\ Len(finals[2].vertices) = 0
    /\ Len(finals[3].vertices) > 0

\* the polyhedron of a seed when every bisector is handed to cutWithPlane
RECURSIVE cutWithEvery(_, _, _, _)
cutWithEvery(box, seed, others, k) ==
    IF k = 0 THEN box
    ELSE The({ cutWithPlane(c, bisectorOf(seed, others[k]))
               : c \in {cutWithEvery(box, seed, others, k - 1)} })

paddedBox == createBox(paddedMin.x, paddedMin.y, paddedMin.z,
                       paddedMax.x, paddedMax.y, paddedMax.z)

alwaysCutFinal(k) ==
    The({ cutWithEvery(paddedBox, seeds[k], others, Len(others))
          : others \in {otherSeedsOf(seeds, seeds[k])} })

\* C20: skipping the call when every vertex is strictly inside the bisector
\* changes nothing: each seed ends with the polyhedron (vertices and faces)
\* that a driver calling cutWithPlane for every other seed gives it.
C20_ShortcutPreserves ==
    pc = "done" => \A k \in 1..Len(finals) : finals[k] = alwaysCutFinal(k)

\* the last seed skipped a call and ended with a cut, non-empty polyhedron
C20_Witness ==
    /\ pc = "done" /\ Len(seeds) >= 2
    /\ Len(cell.vertices) > 0
    /\ cutsDone >= 1 /\ cutsDone < Len(otherSeeds)

\* C21: for seeds pairwise distinct in position and strictly inside the
\* padded box no cut empties a cell, and the result has exactly one cell per
\* input seed, in input order.
C21_NoCellEmptied ==
    nonDegenerateSeeds =>
      /\ pc \in {"cut", "push"} => Len(cell.vertices) > 0
      /\ \A k \in 1..Len(finals) : Len(finals[k].vertices) > 0
      /\ pc = "done" => /\ Len(cells) = Len(seeds)
                        /\ \A k \in 1..Len(seeds) : cells[k].seed = seeds[k]

\* three such seeds, the last one's box cut twice
C21_Witness ==
    /\ pc = "done" /\ nonDegenerateSeeds
    /\ Len(seeds) = 3 /\ Len(cells) = 3 /\ cutsDone = 2

emptyCell == Len(cell.vertices) = 0 /\ Len(cell.faces) = 0

\* the bisectors of the current seed that the inner loop has not reached
remainingBisectors ==
    { bisectorOf(seeds[si], otherSeeds[k]) : k \in oi..Len(otherSeeds) }

\* C25: the empty polyhedron is absorbing.  A cut of an empty cell, by a
\* remaining bisector or any other plane, leaves it empty; once a seed's
\* cell is empty the inner loop stops with no further bisector applied,
\* and the computation goes on with the next seed (or returns after the
\* last), the empty cell adding nothing to the result.
C25_EmptyIsAbsorbing ==
    [][/\ (pc = "cut" /\ emptyCell)
            => /\ pc' = "push" /\ cell' = cell /\ oi' = oi /\ cutsDone' = cutsDone
               /\ \A plane \in remainingBisectors \cup CutPlanes :
                     cutWithPlane(cell, plane) = cell
       /\ (pc = "push" /\ emptyCell)
            => /\ cells' = cells
               /\ IF si < Len(seeds) THEN pc' = "seed" /\ si' = si + 1
                                     ELSE pc' = "done"]_vars

\* a cell emptied with another seed still to cut with and a seed to follow
C25_Witness ==
    /\ pc = "push" /\ emptyCell
    /\ cutsDone >= 1 /\ oi <= Len(otherSeeds) /\ si < Len(seeds)

coincident(a, b) == a.id # b.id /\ seedVecOf(a) = seedVecOf(b)

isReturned(seed) == \E k \in 1..Len(cells) : cells[k].seed = seed

C27_InputsUnmodified ==
    [][seeds' = seeds /\ bounds' = bounds /\ padding' = padding]_vars

\* a call that padded the bounds and sorted the other seeds into another
\* order than the input's
C27_Witness ==
    /\ pc = "done" /\ Len(seeds) = 3 /\ padding # Zero
    /\ Len(otherSeeds) = 2 /\ otherSeeds[1].seed = seeds[2] /\ otherSeeds[2].seed = seeds[1]
    /\ seeds[1].layer # seeds[2].layer

inPaddedBox(v) ==
    /\ RLeq(paddedMin.x, v.x) /\ RLeq(v.x, paddedMax.x)
    /\ RLeq(paddedMin.y, v.y) /\ RLeq(v.y, paddedMax.y)
    /\ RLeq(paddedMin.z, v.z) /\ RLeq(v.z, paddedMax.z)

onSegment(v, a, b) ==
    /\ cross(sub(v, a), sub(b, a)) = ZeroVec
    /\ RSign(dot(sub(v, a), sub(b, a))) >= 0
    /\ RLeq(dot(sub(v, a), sub(b, a)), dot(sub(b, a), sub(b, a)))

\* v is a vertex of c or a point of an edge of c
onVertexOrEdge(v, c) ==
    \/ v \in vertexSet(c)
    \/ \E e \in faceEdgePairs(c) : \E a, b \in e :
          a < b /\ onSegment(v, At(c.vertices, a), At(c.vertices, b))

\* C28: after every cut made by computeVoronoiCells each vertex of the cell
\* lies inside or on the padded box and is an unchanged vertex, or a point
\* of an edge, of the polyhedron as it was before the cut.
C28_CellsOnlyShrink ==
    [][cutsDone' = cutsDone + 1
       => \A i \in 1..Len(cell'.vertices) :
             /\ inPaddedBox(cell'.vertices[i])
             /\ onVertexOrEdge(cell'.vertices[i], cell)]_vars

\* a second cut of a seed's cell that left more vertices than the box has
C28_Witness ==
    /\ pc = "cut" /\ cutsDone = 2
    /\ Len(cell.vertices) > 8
    /\ padding # Zero

\* the faces of p as sets of vertex positions
positionFaces(p) ==
    { { At(p.vertices, p.faces[f][q]) : q \in 1..Len(p.faces[f]) } : f \in 1..Len(p.faces) }

sameGeometry(p, q) == vertexSet(p) = vertexSet(q) /\ positionFaces(p) = positionFaces(q)

orders(n) == { o \in [1..n -> 1..n] : \A i, j \in 1..n : i # j => o[i] # o[j] }

\* the seed's box cut with the bisectors of the others taken in the order o
RECURSIVE cutInOrder(_, _, _, _, _)
cutInOrder(box, seed, others, o, k) ==
    IF k = 0 THEN box
    ELSE The({ cutWithPlane(c, bisectorOf(seed, others[o[k]]))
               : c \in {cutInOrder(box, seed, others, o, k - 1)} })

anyOrderSame(k) ==
    \A others \in {otherSeedsOf(seeds, seeds[k])} :
      \A o \in orders(Len(others)) :
        sameGeometry(finals[k], cutInOrder(paddedBox, seeds[k], others, o, Len(others)))

\* C29: for non-degenerate seeds, the bisectors of a seed applied to its box
\* in any order give a polyhedron with the vertex positions and the faces
\* (as sets of positions) of the one the nearest-first order gives.
C29_CutOrderIrrelevant ==
    (pc = "done" /\ nonDegenerateSeeds) => \A k \in 1..Len(finals) : anyOrderSame(k)

\* three non-degenerate seeds, one at unequal distances from the other two,
\* its cell shaped by both bisectors
C29_Witness ==
    /\ pc = "done" /\ nonDegenerateSeeds /\ Len(seeds) = 3
    /\ \E k \in 1..3 : \E others \in {otherSeedsOf(seeds, seeds[k])} :
          /\ RLess(others[1].distance, others[2].distance)
          /\ Len(finals[k].faces) = 8

\* ------------------------------------------------------------------------
\* Properties of the application layer (SpecLoading)
\* ------------------------------------------------------------------------
\* C30: the loading indicator is hidden only when no requested regeneration
\* remains outstanding: while a timer callback is pending the indicator is
\* shown.
C30_LoadingWhilePending == app.loadingHidden => Len(app.timers) = 0

====
